---------------------------- MODULE Spec2Model ----------------------------
(***************************************************************************)
(* Model of src/minesweeper-Game.cpp: main() asks for the difficulty,      *)
(* constructs a Minesweeper board (random mine placement, adjacency        *)
(* counts) and the board is then driven through revealCell, toggleFlag and *)
(* checkWin.  A cell is a pair <<x, y>>, x the row and y the column, as in  *)
(* grid[x][y].                                                             *)
(***************************************************************************)
EXTENDS Integers, Sequences, FiniteSets, TLC

(* Bounds of the model: the constructor is explored only for boards of at  *)
(* most MaxRows rows, MaxCols columns, MaxCells cells and MaxMines mines.  *)
MaxRows == 2
MaxCols == 3
MaxCells == 6
MaxMines == 2

(* The presets of getDifficultySettings. *)
BeginnerRows == 9
BeginnerCols == 9
BeginnerMines == 10
IntermediateRows == 16
IntermediateCols == 16
IntermediateMines == 40
ExpertRows == 16
ExpertCols == 30
ExpertMines == 99

VARIABLES
    pc,          \* where the program is: which function runs next
    input,       \* what getDifficultySettings read from cin
    rows, cols, totalMines,
    grid,        \* -1 = mine, 0-8 = number of adjacent mines
    revealed,
    flagged,
    gameOver,
    gameWon,
    minesPlaced, \* the local counter of placeMines
    call,        \* the member function called last on the board
    ret,         \* what the last checkWin returned
    screen       \* what displayGrid printed last, cell by cell

vars == <<pc, input, rows, cols, totalMines, grid, revealed, flagged,
          gameOver, gameWon, minesPlaced, call, ret, screen>>

----------------------------------------------------------------------------
(* Helpers of the class. *)

dx_typo == <<-1, -1, -1, 0, 0, 1, 1, 0>>

dx == <<-1, -1, -1, 0, 0, 1, 1, 1>>

dy == <<-1, 0, 1, -1, 1, -1, 0, 1>>

Cells == (0 .. rows - 1) \X (0 .. cols - 1)

isValid(x, y) == x >= 0 /\ x < rows /\ y >= 0 /\ y < cols

----------------------------------------------------------------------------
(* main() and getDifficultySettings. *)

NoInput == [choice |-> 0, rows |-> 0, cols |-> 0, mines |-> 0]

Choices == 1 .. 5

CustomRows == -1 .. MaxRows

CustomCols == -1 .. MaxCols

CustomMines == -1 .. MaxCells + 1

InvalidSettings_off_by_one(r, c, m) == r <= 0 \/ c <= 0 \/ m <= 0 \/ m > r * c

InvalidSettings_no_upper_limit(r, c, m) == r <= 0 \/ c <= 0 \/ m <= 0

InvalidSettings(r, c, m) == r <= 0 \/ c <= 0 \/ m <= 0 \/ m >= r * c

Beginner == <<BeginnerRows, BeginnerCols, BeginnerMines>>

DifficultySettings(choice, r, c, m) ==
    CASE choice = 1 -> Beginner
      [] choice = 2 -> <<IntermediateRows, IntermediateCols, IntermediateMines>>
      [] choice = 3 -> <<ExpertRows, ExpertCols, ExpertMines>>
      [] choice = 4 -> IF InvalidSettings(r, c, m) THEN Beginner ELSE <<r, c, m>>
      [] OTHER -> Beginner

getDifficultySettings ==
    /\ pc = "getDifficultySettings"
    /\ \E choice \in Choices :
         \/ /\ choice # 4
            /\ input' = [NoInput EXCEPT !.choice = choice]
            /\ rows' = DifficultySettings(choice, 0, 0, 0)[1]
            /\ cols' = DifficultySettings(choice, 0, 0, 0)[2]
            /\ totalMines' = DifficultySettings(choice, 0, 0, 0)[3]
         \/ /\ choice = 4
            /\ \E r \in CustomRows, c \in CustomCols, m \in CustomMines :
                 /\ input' = [choice |-> 4, rows |-> r, cols |-> c, mines |-> m]
                 /\ rows' = DifficultySettings(4, r, c, m)[1]
                 /\ cols' = DifficultySettings(4, r, c, m)[2]
                 /\ totalMines' = DifficultySettings(4, r, c, m)[3]
    /\ pc' = "Minesweeper"
    /\ UNCHANGED <<grid, revealed, flagged, gameOver, gameWon, minesPlaced,
                   call, ret,
                   screen>>

----------------------------------------------------------------------------
(* The constructor: Minesweeper, placeMines, calculateNumbers. *)

(* The boards whose random placement the model explores. *)
Explored ==
    /\ rows <= MaxRows /\ cols <= MaxCols /\ rows * cols <= MaxCells
    /\ totalMines <= MaxMines

Minesweeper ==
    /\ pc = "Minesweeper"
    /\ grid' = [c \in Cells |-> 0]
    /\ revealed' = [c \in Cells |-> FALSE]
    /\ flagged' = [c \in Cells |-> FALSE]
    /\ gameOver' = FALSE
    /\ gameWon' = FALSE
    /\ minesPlaced' = 0
    /\ pc' = "placeMines"
    /\ UNCHANGED <<input, rows, cols, totalMines, call, ret,
                   screen>>

PlaceMine_no_collision_check(g, n, x, y) ==
    <<[g EXCEPT ![<<x, y>>] = -1], n + 1>>

(* One iteration of the loop of placeMines on the cell rand picked. *)
PlaceMine(g, n, x, y) ==
    IF g[<<x, y>>] # -1
    THEN <<[g EXCEPT ![<<x, y>>] = -1], n + 1>>
    ELSE <<g, n>>

placeMines ==
    /\ pc = "placeMines"
    /\ Explored
    /\ minesPlaced < totalMines
    /\ \E x \in 0 .. rows - 1, y \in 0 .. cols - 1 :
         /\ grid' = PlaceMine(grid, minesPlaced, x, y)[1]
         /\ minesPlaced' = PlaceMine(grid, minesPlaced, x, y)[2]
    /\ UNCHANGED <<pc, input, rows, cols, totalMines, revealed, flagged,
                   gameOver, gameWon, call, ret,
                   screen>>

placeMinesReturn ==
    /\ pc = "placeMines"
    /\ Explored
    /\ ~(minesPlaced < totalMines)
    /\ pc' = "calculateNumbers"
    /\ UNCHANGED <<input, rows, cols, totalMines, grid, revealed, flagged,
                   gameOver, gameWon, minesPlaced, call, ret,
                   screen>>

RECURSIVE CountAdjacent(_, _, _, _)
(* The loop over k of calculateNumbers, from direction k on. *)
CountAdjacent(g, i, j, k) ==
    IF k > 8 THEN 0
    ELSE LET newX == i + dx[k]
             newY == j + dy[k]
         IN  (IF isValid(newX, newY) /\ g[<<newX, newY>>] = -1 THEN 1 ELSE 0)
             + CountAdjacent(g, i, j, k + 1)

RECURSIVE CalculateNumbers(_, _, _)
(* The loops over i and j of calculateNumbers, from cell (i, j) on; the    *)
(* grid is updated in place as in the code.                                *)
CalculateNumbers(g, i, j) ==
    IF i >= rows THEN g
    ELSE IF j >= cols THEN CalculateNumbers(g, i + 1, 0)
    ELSE IF g[<<i, j>>] # -1
         THEN CalculateNumbers([g EXCEPT ![<<i, j>>] = CountAdjacent(g, i, j, 1)],
                               i, j + 1)
         ELSE CalculateNumbers(g, i, j + 1)

calculateNumbers ==
    /\ pc = "calculateNumbers"
    /\ grid' = CalculateNumbers(grid, 0, 0)
    /\ pc' = "playGame"
    /\ UNCHANGED <<input, rows, cols, totalMines, revealed, flagged,
                   gameOver, gameWon, minesPlaced, call, ret,
                   screen>>

----------------------------------------------------------------------------
(* revealCell: the recursive flood fill.  st is the part of the object the *)
(* call writes: [revealed, gameOver].                                      *)

RevealReturnsEarly_ignores_flag(rev, x, y) == ~isValid(x, y) \/ rev[<<x, y>>]

RevealReturnsEarly_gated(rev, x, y) ==
    gameOver \/ gameWon \/ ~isValid(x, y) \/ rev[<<x, y>>] \/ flagged[<<x, y>>]

RevealReturnsEarly_remarks_numbers(rev, x, y) ==
    ~isValid(x, y) \/ (rev[<<x, y>>] /\ grid[<<x, y>>] = 0) \/ flagged[<<x, y>>]

RevealReturnsEarly(rev, x, y) ==
    ~isValid(x, y) \/ rev[<<x, y>>] \/ flagged[<<x, y>>]

HitsMine_wrong_marker(x, y) == grid[<<x, y>>] < -1

HitsMine(x, y) == grid[<<x, y>>] = -1

RevealCascades_from_numbers(x, y) == grid[<<x, y>>] >= 0

RevealCascades(x, y) == grid[<<x, y>>] = 0

RECURSIVE RevealCell(_, _, _)
RECURSIVE RevealNeighbours(_, _, _, _)

RevealCell_toggles(st, x, y) ==
    IF ~isValid(x, y) \/ flagged[<<x, y>>] THEN st
    ELSE [st EXCEPT !.revealed[<<x, y>>] = ~st.revealed[<<x, y>>]]

RevealCell(st, x, y) ==
    IF RevealReturnsEarly(st.revealed, x, y) THEN st
    ELSE LET st1 == [st EXCEPT !.revealed[<<x, y>>] = TRUE]
         IN  IF HitsMine(x, y)
             THEN [st1 EXCEPT !.gameOver = TRUE]
             ELSE IF RevealCascades(x, y)
                  THEN RevealNeighbours(st1, x, y, 1)
                  ELSE st1

(* The loop over k of revealCell, from direction k on. *)
RevealNeighbours(st, x, y, k) ==
    IF k > 8 THEN st
    ELSE RevealNeighbours(RevealCell(st, x + dx[k], y + dy[k]), x, y, k + 1)

RECURSIVE RevealCellMarks(_, _, _)
RECURSIVE RevealNeighboursMarks(_, _, _, _)

(* revealCell again, recording in st.marks each execution of line 93,      *)
(* revealed[x][y] = true, in order.                                        *)
RevealCellMarks(st, x, y) ==
    IF RevealReturnsEarly(st.revealed, x, y) THEN st
    ELSE LET st1 == [st EXCEPT !.revealed[<<x, y>>] = TRUE,
                               !.marks = Append(@, <<x, y>>)]
         IN  IF HitsMine(x, y)
             THEN [st1 EXCEPT !.gameOver = TRUE]
             ELSE IF RevealCascades(x, y)
                  THEN RevealNeighboursMarks(st1, x, y, 1)
                  ELSE st1

RevealNeighboursMarks(st, x, y, k) ==
    IF k > 8 THEN st
    ELSE RevealNeighboursMarks(RevealCellMarks(st, x + dx[k], y + dy[k]),
                               x, y, k + 1)

(* The flood fill with an explicit worklist, as the design notes put it:   *)
(* pop a coordinate, apply the guards of revealCell, push the neighbours   *)
(* of a zero-count cell; the list is a stack (lifo) or a queue.            *)
WorklistNeighbours(x, y) ==
    << <<x + 1, y + 1>>, <<x + 1, y>>, <<x + 1, y - 1>>, <<x, y + 1>>,
       <<x, y - 1>>, <<x - 1, y + 1>>, <<x - 1, y>>, <<x - 1, y - 1>> >>

RECURSIVE RevealWorklist(_, _, _)
RevealWorklist(st, work, lifo) ==
    IF work = <<>> THEN st
    ELSE LET x == Head(work)[1]
             y == Head(work)[2]
             rest == Tail(work)
         IN  IF RevealReturnsEarly(st.revealed, x, y)
             THEN RevealWorklist(st, rest, lifo)
             ELSE LET st1 == [st EXCEPT !.revealed[<<x, y>>] = TRUE]
                  IN  IF HitsMine(x, y)
                      THEN RevealWorklist([st1 EXCEPT !.gameOver = TRUE], rest, lifo)
                      ELSE IF RevealCascades(x, y)
                           THEN RevealWorklist(
                                    st1,
                                    IF lifo THEN WorklistNeighbours(x, y) \o rest
                                            ELSE rest \o WorklistNeighbours(x, y),
                                    lifo)
                           ELSE RevealWorklist(st1, rest, lifo)

revealCell_assigns_grid(x, y) ==
    /\ pc = "playGame"
    /\ call' = "revealCell"
    /\ IF RevealReturnsEarly(revealed, x, y)
       THEN UNCHANGED <<revealed, grid, gameOver>>
       ELSE /\ revealed' = [revealed EXCEPT ![<<x, y>>] = TRUE]
            /\ grid' = [grid EXCEPT ![<<x, y>>] = -1]
            /\ gameOver' = TRUE
    /\ UNCHANGED <<pc, input, rows, cols, totalMines, flagged, gameWon,
                   minesPlaced, ret,
                   screen>>

revealCell(x, y) ==
    /\ pc = "playGame"
    /\ call' = "revealCell"
    /\ LET st == RevealCell([revealed |-> revealed, gameOver |-> gameOver], x, y)
       IN  /\ revealed' = st.revealed
           /\ gameOver' = st.gameOver
    /\ UNCHANGED <<pc, input, rows, cols, totalMines, grid, flagged, gameWon,
                   minesPlaced, ret,
                   screen>>

----------------------------------------------------------------------------
(* toggleFlag. *)

ToggleFlag_sets(f, rev, x, y) ==
    IF ~isValid(x, y) \/ rev[<<x, y>>] THEN f
    ELSE [f EXCEPT ![<<x, y>>] = TRUE]

ToggleFlag_ignores_revealed(f, rev, x, y) ==
    IF ~isValid(x, y) THEN f
    ELSE [f EXCEPT ![<<x, y>>] = ~f[<<x, y>>]]

ToggleFlag(f, rev, x, y) ==
    IF ~isValid(x, y) \/ rev[<<x, y>>] THEN f
    ELSE [f EXCEPT ![<<x, y>>] = ~f[<<x, y>>]]

toggleFlag(x, y) ==
    /\ pc = "playGame"
    /\ call' = "toggleFlag"
    /\ flagged' = ToggleFlag(flagged, revealed, x, y)
    /\ UNCHANGED <<pc, input, rows, cols, totalMines, grid, revealed, gameOver,
                   gameWon, minesPlaced, ret,
                   screen>>

----------------------------------------------------------------------------
(* checkWin. *)

CountsAsRevealed_counts_mines(i, j) == revealed[<<i, j>>]

CountsAsRevealed(i, j) == revealed[<<i, j>>] /\ grid[<<i, j>>] # -1

RECURSIVE RevealedCount(_, _)
(* The loops over i and j of checkWin, from cell (i, j) on. *)
RevealedCount(i, j) ==
    IF i >= rows THEN 0
    ELSE IF j >= cols THEN RevealedCount(i + 1, 0)
    ELSE (IF CountsAsRevealed(i, j) THEN 1 ELSE 0) + RevealedCount(i, j + 1)

CheckWin == RevealedCount(0, 0) = rows * cols - totalMines

checkWin ==
    /\ pc = "playGame"
    /\ gameWon' = (IF CheckWin THEN TRUE ELSE gameWon)
    /\ ret' = CheckWin
    /\ call' = "checkWin"
    /\ UNCHANGED <<pc, input, rows, cols, totalMines, grid, revealed, flagged,
                   gameOver, minesPlaced,
                   screen>>

(* The status playGame reports: the loop runs while neither flag is set,   *)
(* and the final message tests gameWon first.                              *)
status ==
    IF gameWon THEN "Won" ELSE IF gameOver THEN "Lost" ELSE "InProgress"

----------------------------------------------------------------------------
(* Specifications. *)

Init ==
    /\ pc = "getDifficultySettings"
    /\ input = NoInput
    /\ rows = 0 /\ cols = 0 /\ totalMines = 0
    /\ grid = <<>> /\ revealed = <<>> /\ flagged = <<>>
    /\ gameOver = FALSE /\ gameWon = FALSE
    /\ minesPlaced = 0
    /\ call = "none"
    /\ ret = FALSE
    /\ screen = <<>>

Reveal == \E x \in -1 .. rows, y \in -1 .. cols : revealCell(x, y)

Flag == \E x \in -1 .. rows, y \in -1 .. cols : toggleFlag(x, y)

Next ==
    \/ getDifficultySettings
    \/ Minesweeper
    \/ placeMines
    \/ placeMinesReturn
    \/ calculateNumbers
    \/ Reveal
    \/ Flag
    \/ checkWin

Spec == Init /\ [][Next]_vars

(* The calls of a player who never flags. *)
NextNoFlag ==
    \/ getDifficultySettings
    \/ Minesweeper
    \/ placeMines
    \/ placeMinesReturn
    \/ calculateNumbers
    \/ Reveal
    \/ checkWin

SpecNoFlag == Init /\ [][NextNoFlag]_vars

(* The calls of a player who flags and never removes a flag. *)
PlaceFlag ==
    /\ pc = "playGame"
    /\ \E x \in -1 .. rows, y \in -1 .. cols :
          /\ ~(isValid(x, y) /\ flagged[<<x, y>>])
          /\ toggleFlag(x, y)

NextNoUnflag ==
    \/ getDifficultySettings
    \/ Minesweeper
    \/ placeMines
    \/ placeMinesReturn
    \/ calculateNumbers
    \/ Reveal
    \/ PlaceFlag

SpecNoUnflag == Init /\ [][NextNoUnflag]_vars

----------------------------------------------------------------------------
(* displayGrid and playGame: the loop shows the grid, reads a command and, *)
(* after a reveal or a flag in bounds, calls checkWin.                     *)

NumberText == <<" 1 ", " 2 ", " 3 ", " 4 ", " 5 ", " 6 ", " 7 ", " 8 ">>

DisplayCell_mine_test_first(g, i, j, showMines) ==
    IF flagged[<<i, j>>] /\ ~showMines THEN " F "
    ELSE IF g[<<i, j>>] = -1 THEN " * "
    ELSE IF ~revealed[<<i, j>>] /\ ~showMines THEN " . "
    ELSE IF g[<<i, j>>] = 0 THEN "   "
    ELSE NumberText[g[<<i, j>>]]

(* What displayGrid prints for cell (i, j) of a board with kinds g. *)
DisplayCell(g, i, j, showMines) ==
    IF flagged[<<i, j>>] /\ ~showMines THEN " F "
    ELSE IF ~revealed[<<i, j>>] /\ ~showMines THEN " . "
    ELSE IF g[<<i, j>>] = -1 THEN " * "
    ELSE IF g[<<i, j>>] = 0 THEN "   "
    ELSE NumberText[g[<<i, j>>]]

DisplayGrid(g, showMines) ==
    [c \in Cells |-> DisplayCell(g, c[1], c[2], showMines)]

(* The head of the loop: neither flag is set, the grid is shown and the    *)
(* program waits for a command.                                            *)
playGameDisplay ==
    /\ pc = "playGame"
    /\ ~gameOver /\ ~gameWon
    /\ screen' = DisplayGrid(grid, FALSE)
    /\ pc' = "command"
    /\ UNCHANGED <<input, rows, cols, totalMines, grid, revealed, flagged,
                   gameOver, gameWon, minesPlaced, call, ret>>

(* The command r x y with (x, y) in bounds: revealCell, then checkWin. *)
playGameReveal(x, y) ==
    /\ pc = "command"
    /\ isValid(x, y)
    /\ LET st == RevealCell([revealed |-> revealed, gameOver |-> gameOver], x, y)
       IN  /\ revealed' = st.revealed
           /\ gameOver' = st.gameOver
    /\ UNCHANGED <<input, rows, cols, totalMines, grid, flagged, minesPlaced,
                   screen>>
    /\ ret' = CheckWin'
    /\ gameWon' = (IF CheckWin' THEN TRUE ELSE gameWon)
    /\ call' = "checkWin"
    /\ pc' = "playGame"

(* The command f x y with (x, y) in bounds: toggleFlag, then checkWin. *)
playGameFlag(x, y) ==
    /\ pc = "command"
    /\ isValid(x, y)
    /\ flagged' = ToggleFlag(flagged, revealed, x, y)
    /\ UNCHANGED <<input, rows, cols, totalMines, grid, revealed, gameOver,
                   minesPlaced, screen>>
    /\ ret' = CheckWin'
    /\ gameWon' = (IF CheckWin' THEN TRUE ELSE gameWon)
    /\ call' = "checkWin"
    /\ pc' = "playGame"

(* r or f with coordinates out of bounds, or an unknown command: the loop  *)
(* goes round without calling anything.                                    *)
playGameInvalid ==
    /\ pc = "command"
    /\ pc' = "playGame"
    /\ UNCHANGED <<input, rows, cols, totalMines, grid, revealed, flagged,
                   gameOver, gameWon, minesPlaced, call, ret, screen>>

(* The command q. *)
playGameQuit ==
    /\ pc = "command"
    /\ pc' = "done"
    /\ UNCHANGED <<input, rows, cols, totalMines, grid, revealed, flagged,
                   gameOver, gameWon, minesPlaced, call, ret, screen>>

(* The loop condition fails: the whole grid is shown and the result told.  *)
playGameEnd ==
    /\ pc = "playGame"
    /\ gameOver \/ gameWon
    /\ screen' = DisplayGrid(grid, TRUE)
    /\ pc' = "done"
    /\ UNCHANGED <<input, rows, cols, totalMines, grid, revealed, flagged,
                   gameOver, gameWon, minesPlaced, call, ret>>

CommandReveal == \E x \in 0 .. rows - 1, y \in 0 .. cols - 1 : playGameReveal(x, y)

CommandFlag == \E x \in 0 .. rows - 1, y \in 0 .. cols - 1 : playGameFlag(x, y)

(* The program as main runs it. *)
NextGame ==
    \/ getDifficultySettings
    \/ Minesweeper
    \/ placeMines
    \/ placeMinesReturn
    \/ calculateNumbers
    \/ playGameDisplay
    \/ CommandReveal
    \/ CommandFlag
    \/ playGameInvalid
    \/ playGameQuit
    \/ playGameEnd

SpecGame == Init /\ [][NextGame]_vars

(* The constructor alone, with rand sampling fairly: while a free cell is  *)
(* left and the loop of placeMines runs, a free cell is eventually picked, *)
(* and the program goes on when the loop condition fails.                  *)
NextConstruct ==
    \/ getDifficultySettings
    \/ Minesweeper
    \/ placeMines
    \/ placeMinesReturn
    \/ calculateNumbers

SpecFairPlacement ==
    /\ Init
    /\ [][NextConstruct]_vars
    /\ WF_vars(placeMines)
    /\ WF_vars(placeMinesReturn)

----------------------------------------------------------------------------
(* What the properties below are stated with: sets of cells, adjacency as  *)
(* a distance, and the zero-region as a least fixed point.  None of it     *)
(* uses the direction tables or the recursion of the class.                *)

Abs(n) == IF n < 0 THEN -n ELSE n

Adjacent(c, d) == c # d /\ Abs(c[1] - d[1]) <= 1 /\ Abs(c[2] - d[2]) <= 1

Mines == {c \in Cells : grid[c] = -1}

RevealedCells == {c \in Cells : revealed[c]}

FlaggedCells == {c \in Cells : flagged[c]}

RECURSIVE ZeroClosure(_)
ZeroClosure(S) ==
    LET T == S \cup {d \in Cells : grid[d] = 0 /\ \E e \in S : Adjacent(d, e)}
    IN  IF T = S THEN S ELSE ZeroClosure(T)

(* The 8-connected region of zero-count cells of the zero-count cell c. *)
ZeroRegion(c) == ZeroClosure({c})

(* The numbered cells next to that region. *)
ZeroBorder(c) ==
    {d \in Cells : grid[d] > 0 /\ \E e \in ZeroRegion(c) : Adjacent(d, e)}

InvalidConfig(r, c, m) == r <= 0 \/ c <= 0 \/ m <= 0 \/ m >= r * c

Playing == pc = "playGame"

----------------------------------------------------------------------------
(* C1: when no flag has ever been placed, revealCell(x, y) on a hidden     *)
(* zero-count cell leaves revealed exactly what was revealed before, the   *)
(* cell's 8-connected zero-region and the numbered cells bordering it.     *)
C1_FloodFillRevealsRegionAndBorder ==
    [][\A x \in 0 .. rows - 1, y \in 0 .. cols - 1 :
         (/\ Playing
          /\ ~revealed[<<x, y>>]
          /\ grid[<<x, y>>] = 0
          /\ revealCell(x, y))
         => RevealedCells' =
              RevealedCells \cup ZeroRegion(<<x, y>>) \cup ZeroBorder(<<x, y>>)]_vars

(* A flood fill has revealed a region of several cells and its border, and *)
(* a numbered cell beyond the border is still hidden.                      *)
C1_Witness ==
    /\ Playing
    /\ call = "revealCell"
    /\ ~gameOver
    /\ \E c \in Cells :
         /\ grid[c] = 0
         /\ Cardinality(ZeroRegion(c)) >= 2
         /\ RevealedCells = ZeroRegion(c) \cup ZeroBorder(c)
    /\ \E d \in Cells : grid[d] > 0 /\ ~revealed[d]

(* C2: revealCell(x, y) on a hidden, unflagged mine sets gameOver and      *)
(* reveals that cell only: every other cell's revealed bit is unchanged.   *)
C2_MineRevealLosesWithoutCascade ==
    [][\A x \in 0 .. rows - 1, y \in 0 .. cols - 1 :
         (/\ Playing
          /\ ~revealed[<<x, y>>]
          /\ ~flagged[<<x, y>>]
          /\ grid[<<x, y>>] = -1
          /\ revealCell(x, y))
         => /\ gameOver'
            /\ revealed'[<<x, y>>]
            /\ \A d \in Cells \ {<<x, y>>} : revealed'[d] = revealed[d]]_vars

(* A mine was revealed first: it alone is revealed, next to hidden cells.  *)
C2_Witness ==
    /\ Playing
    /\ call = "revealCell"
    /\ gameOver
    /\ \E c \in Mines :
         /\ RevealedCells = {c}
         /\ \E d \in Cells : Adjacent(c, d) /\ grid[d] # -1 /\ ~flagged[d]

(* C3: checkWin returns true exactly when the number of revealed non-mine  *)
(* cells is rows*cols - totalMines; it returns false when every mine is    *)
(* flagged and a non-mine cell is still hidden.                            *)
C3_CheckWinCountsRevealedNonMines ==
    (Playing /\ call = "checkWin") =>
        /\ ret <=> (Cardinality(RevealedCells \ Mines) = rows * cols - totalMines)
        /\ (Mines \subseteq FlaggedCells /\ Cells \ (Mines \cup RevealedCells) # {})
             => ~ret

(* checkWin has just returned false with every mine flagged, some cell     *)
(* revealed and some non-mine cell hidden.                                 *)
C3_Witness ==
    /\ Playing
    /\ call = "checkWin"
    /\ ~ret
    /\ Mines \subseteq FlaggedCells
    /\ RevealedCells # {}
    /\ Cells \ (Mines \cup RevealedCells) # {}

(* C4: the status starts InProgress and, once Won or Lost, never changes.  *)
C4_StatusIsTerminal ==
    /\ (pc = "getDifficultySettings" => status = "InProgress")
    /\ [][status # "InProgress" => status' = status]_vars

C6_ExactlyTotalMinesPlaced ==
    pc \in {"calculateNumbers", "playGame"} => Cardinality(Mines) = totalMines

(* Placement has finished on a board with several mines and one free cell. *)
C6_Witness ==
    /\ pc = "calculateNumbers"
    /\ totalMines >= 2
    /\ totalMines = rows * cols - 1
    /\ minesPlaced = totalMines

(* C7: calculateNumbers leaves every mine a mine and gives every other     *)
(* cell the number of mines among its in-bounds neighbours.                *)
C7_NumbersCountAdjacentMines ==
    [][calculateNumbers =>
         \A c \in Cells :
            IF grid[c] = -1
            THEN grid'[c] = -1
            ELSE grid'[c] = Cardinality({d \in Cells : Adjacent(c, d) /\ grid[d] = -1})]_vars

(* A constructed board with a cell between two mines and a cell next to    *)
(* none.                                                                   *)
C7_Witness ==
    /\ Playing
    /\ call = "none"
    /\ \E c \in Cells : grid[c] = 2
    /\ \E c \in Cells : grid[c] = 0

(* C8: no cell is both flagged and revealed.                               *)
C8_NoCellFlaggedAndRevealed ==
    Playing => \A c \in Cells : ~(flagged[c] /\ revealed[c])

(* A flood fill has stopped at a flagged cell next to a revealed zero. *)
C8_Witness ==
    /\ Playing
    /\ call = "revealCell"
    /\ \E c \in Cells, d \in Cells :
         /\ Adjacent(c, d)
         /\ flagged[c] /\ ~revealed[c]
         /\ revealed[d] /\ grid[d] = 0

(* C9: revealCell(x, y) out of bounds, on a revealed cell or on a flagged  *)
(* cell changes none of revealed, flagged, grid, gameOver and gameWon:     *)
(* a step that changes one of them is no such call.                        *)
C9_RevealIsNoOpWhenGuarded ==
    [][(Playing /\ call' = "revealCell") =>
         \/ UNCHANGED <<revealed, flagged, grid, gameOver, gameWon>>
         \/ \A x \in -1 .. rows, y \in -1 .. cols :
               (~isValid(x, y) \/ revealed[<<x, y>>] \/ flagged[<<x, y>>])
                  => ~revealCell(x, y)]_vars

(* Every cell is flagged, mines included, revealCell was called and        *)
(* nothing is revealed and the game is not lost.                           *)
C9_Witness ==
    /\ Playing
    /\ call = "revealCell"
    /\ FlaggedCells = Cells
    /\ Mines # {}
    /\ RevealedCells = {}
    /\ ~gameOver

(* C10: toggleFlag(x, y) changes nothing on a revealed or out-of-bounds    *)
(* cell and flips only the flag of a hidden in-bounds cell, so that a      *)
(* second toggleFlag(x, y) gives back the flags before the first; and a    *)
(* toggleFlag step changes nothing but flagged.                            *)
C10_ToggleFlagFlipsAndUndoes ==
    /\ [](Playing =>
            \A x \in -1 .. rows, y \in -1 .. cols :
               LET once == ToggleFlag(flagged, revealed, x, y)
                   twice == ToggleFlag(once, revealed, x, y)
               IN  /\ IF isValid(x, y) /\ ~revealed[<<x, y>>]
                      THEN /\ once[<<x, y>>] = ~flagged[<<x, y>>]
                           /\ \A d \in Cells \ {<<x, y>>} : once[d] = flagged[d]
                      ELSE once = flagged
                   /\ twice = flagged)
    /\ [][(Playing /\ call' = "toggleFlag") =>
            /\ UNCHANGED <<revealed, grid, gameOver, gameWon>>
            /\ \E x \in -1 .. rows, y \in -1 .. cols :
                  flagged' = ToggleFlag(flagged, revealed, x, y)]_vars

(* toggleFlag was the last call, on a board with revealed cells, and a     *)
(* flag is set.                                                            *)
C10_Witness ==
    /\ Playing
    /\ call = "toggleFlag"
    /\ RevealedCells # {}
    /\ FlaggedCells # {}

(* C11: a cell that is revealed stays revealed under revealCell,           *)
(* toggleFlag and checkWin.                                                *)
C11_RevealedIsMonotone ==
    [][Playing => \A c \in Cells : revealed[c] => revealed'[c]]_vars

(* A cell was revealed, and a flag was then toggled and is set. *)
C11_Witness ==
    /\ Playing
    /\ call = "toggleFlag"
    /\ Cardinality(RevealedCells) >= 2
    /\ FlaggedCells # {}

(* C13: after construction revealCell, toggleFlag and checkWin leave grid, *)
(* the kinds of the cells, as calculateNumbers computed it.                *)
C13_KindsAreImmutable ==
    [][Playing => grid' = grid]_vars

(* A game in which a mine and a safe cell were revealed, a flag is set and *)
(* checkWin ran.                                                           *)
C13_Witness ==
    /\ Playing
    /\ call = "checkWin"
    /\ gameOver
    /\ RevealedCells \ Mines # {}
    /\ FlaggedCells # {}

(* C17: with gameOver or gameWon set, revealCell on a hidden unflagged     *)
(* cell still reveals it and toggleFlag on a hidden cell still flips its   *)
(* flag.                                                                   *)
C17_CallsAreNotGated ==
    [][(Playing /\ (gameOver \/ gameWon)) =>
         \A x \in 0 .. rows - 1, y \in 0 .. cols - 1 :
            /\ (~revealed[<<x, y>>] /\ ~flagged[<<x, y>>] /\ revealCell(x, y))
                 => revealed'[<<x, y>>]
            /\ (~revealed[<<x, y>>] /\ toggleFlag(x, y))
                 => flagged'[<<x, y>>] = ~flagged[<<x, y>>]]_vars

(* Both gameOver and gameWon are set, which takes a call that acted after  *)
(* the first of them was set; a hidden mine is flagged.                    *)
C17_Witness ==
    /\ Playing
    /\ gameOver /\ gameWon
    /\ call = "toggleFlag"
    /\ \E c \in Mines : flagged[c]

(* C19: revealCell(x, y) with a target that is no mine reveals no mine and *)
(* does not set gameOver: a step that does either is no such call.         *)
C19_OnlyDirectTargetRevealsMine ==
    [][(/\ Playing
        /\ call' = "revealCell"
        /\ (gameOver' # gameOver \/ \E m \in Mines : revealed'[m] # revealed[m]))
       => \A x \in -1 .. rows, y \in -1 .. cols :
             ~(isValid(x, y) /\ grid[<<x, y>>] = -1) => ~revealCell(x, y)]_vars

(* A flood fill ran next to a mine: a zero-count cell and a numbered cell  *)
(* are revealed, no mine is, and the game is not lost.                     *)
C19_Witness ==
    /\ Playing
    /\ call = "revealCell"
    /\ ~gameOver
    /\ RevealedCells \cap Mines = {}
    /\ \E c \in RevealedCells : grid[c] = 0
    /\ \E c \in RevealedCells, m \in Mines : Adjacent(c, m)

(* C12: under fair sampling placeMines terminates on every explored board, *)
(* the loop exiting with minesPlaced = totalMines.                         *)
C12_PlacementTerminates ==
    (pc = "placeMines" /\ Explored)
        ~> (pc = "calculateNumbers" /\ minesPlaced = totalMines)

(* A board of at least three cells was constructed with one free cell.     *)
C12_Witness ==
    /\ pc = "playGame"
    /\ rows * cols >= 3
    /\ totalMines = rows * cols - 1
    /\ Cardinality(Mines) = rows * cols - 1

(* C14: what the loop of playGame shows (displayGrid without showMines)    *)
(* has a mine only where the cell is revealed; a hidden cell is shown as   *)
(* " . " or " F " and the whole screen is the same whatever kind that cell *)
(* has.                                                                    *)
C14_NormalDisplayHidesKinds ==
    pc = "command" =>
        \A c \in Cells :
            /\ screen[c] = " * " => revealed[c]
            /\ ~revealed[c] =>
                 /\ screen[c] \in {" . ", " F "}
                 /\ \A k \in -1 .. 8 :
                       DisplayGrid([grid EXCEPT ![c] = k], FALSE) = screen

(* The screen shows a hidden mine as " . ", a flagged mine as " F " and a  *)
(* revealed cell with its number.                                          *)
C14_Witness ==
    /\ pc = "command"
    /\ \E m \in Mines : screen[m] = " . "
    /\ \E m \in Mines : screen[m] = " F "
    /\ \E c \in Cells : revealed[c] /\ grid[c] > 0 /\ screen[c] = NumberText[grid[c]]

(* C18: in the loop of playGame gameOver and gameWon are never both set:   *)
(* with a mine revealed the game is reported lost, and it is reported won  *)
(* only with no mine revealed.                                             *)
C18_LoopNeverWonAndLost ==
    pc \in {"playGame", "command", "done"} =>
        /\ ~(gameOver /\ gameWon)
        /\ RevealedCells \cap Mines # {} => status = "Lost"
        /\ status = "Won" => RevealedCells \cap Mines = {}

(* A game has ended on a mine with a single safe cell left to reveal.      *)
C18_Witness ==
    /\ pc = "done"
    /\ gameOver
    /\ status = "Lost"
    /\ Cardinality(RevealedCells \cap Mines) = 1
    /\ Cardinality(RevealedCells \ Mines) = rows * cols - totalMines - 1
    /\ rows * cols - totalMines >= 2

(* C20: when no flag has ever been removed, every in-bounds neighbour of a *)
(* revealed zero-count cell is revealed or flagged.                        *)
C20_ZeroNeighboursRevealedOrFlagged ==
    Playing =>
        \A c \in Cells :
            (revealed[c] /\ grid[c] = 0) =>
                \A d \in Cells : Adjacent(c, d) => (revealed[d] \/ flagged[d])

(* A revealed zero-count cell has a hidden neighbour that is no mine and   *)
(* was flagged before the flood fill, and a revealed neighbour.            *)
C20_Witness ==
    /\ Playing
    /\ call = "revealCell"
    /\ \E c \in Cells, d \in Cells, e \in Cells :
         /\ revealed[c] /\ grid[c] = 0
         /\ Adjacent(c, d) /\ flagged[d] /\ ~revealed[d] /\ grid[d] # -1
         /\ Adjacent(c, e) /\ revealed[e]

(* C15: from every state and for every target, the recursive revealCell    *)
(* and a worklist flood fill, run as a stack and as a queue and visiting   *)
(* the neighbours in another order, end with the same revealed grid and    *)
(* the same gameOver.                                                      *)
C15_WorklistRevealsTheSame ==
    Playing =>
        \A x \in -1 .. rows, y \in -1 .. cols :
            LET st == [revealed |-> revealed, gameOver |-> gameOver]
                dfs == RevealCell(st, x, y)
            IN  /\ RevealWorklist(st, << <<x, y>> >>, TRUE) = dfs
                /\ RevealWorklist(st, << <<x, y>> >>, FALSE) = dfs

(* After a reveal, a hidden unflagged zero-count cell is left whose flood  *)
(* fill will stop at a flagged cell and at revealed cells.                 *)
C15_Witness ==
    /\ Playing
    /\ call = "revealCell"
    /\ RevealedCells # {}
    /\ \E c \in Cells, d \in Cells :
         /\ grid[c] = 0 /\ ~revealed[c] /\ ~flagged[c]
         /\ Adjacent(c, d) /\ flagged[d]

(* C16: revealCell returns from every state and for every target, and one  *)
(* call marks no cell twice, so it marks at most rows*cols cells: the      *)
(* cells it marks are those it newly reveals.                              *)
C16_RevealMarksEachCellOnce ==
    Playing =>
        \A x \in -1 .. rows, y \in -1 .. cols :
            LET r == RevealCellMarks([revealed |-> revealed, gameOver |-> gameOver,
                                      marks |-> <<>>], x, y)
                n == Len(r.marks)
            IN  /\ \A i \in 1 .. n, j \in 1 .. n : r.marks[i] = r.marks[j] => i = j
                /\ n <= rows * cols
                /\ {r.marks[i] : i \in 1 .. n} = {c \in Cells : r.revealed[c]} \ RevealedCells
                /\ r.revealed = RevealCell([revealed |-> revealed,
                                            gameOver |-> gameOver], x, y).revealed

(* One call has revealed every cell that is no mine, four at least, on a   *)
(* board without flags.                                                    *)
C16_Witness ==
    /\ Playing
    /\ call = "revealCell"
    /\ FlaggedCells = {}
    /\ RevealedCells = Cells \ Mines
    /\ Cardinality(RevealedCells) >= 4
    /\ \E c \in Cells :
         grid[c] = 0 /\ ZeroRegion(c) \cup ZeroBorder(c) = Cells \ Mines

=============================================================================
